---- MODULE Spec2Model ----
(***************************************************************************)
(* rengarde: a bonded UDP tunnel multiplexer.                              *)
(*                                                                         *)
(* The client (crates/client) fans every datagram of the local VPN daemon  *)
(* out over one UDP socket per network interface and funnels the replies   *)
(* back; the server (crates/server) does the same per client address.      *)
(* The two programs are separate processes: a behaviour of this module is  *)
(* a run of one of them, chosen by `side` in the initial state.            *)
(*                                                                         *)
(* The path table of both programs is a DashMap: a sharded map whose       *)
(* iterators keep the lock of the shard they are walking.  A step of a     *)
(* task that touches a key waits for the lock of the key's shard.          *)
(***************************************************************************)
EXTENDS Integers, Sequences, FiniteSets, TLC

\* ----------------------------------------------------------------- bounds
\* What happens to the program in one run: datagrams received, on all sockets
\* together, and faults (failed calls, interface changes, interrupts).
MaxEvents == 3
MaxTime == 12    \* seconds on the server's clock
ClientTimeout == 2   \* settings.server.client_timeout, in seconds
MaxLen == 1502   \* bytes of the longest datagram sent to the program
MaxAddrs == 3    \* addresses of the interface given to the selector

\* -------------------------------------------------------------- constants
SweepPeriod == 5     \* the sleep of the cleanup task, in seconds
BUFFER_SIZE == 1500  \* bytes of the receive buffer of every task

\* ------------------------------------------------------------- the domain
Ifaces == {"eth0", "wlan0"}
IfaceOrder == <<"eth0", "wlan0">>
\* An enumeration that names an interface twice.
IfaceTwice == <<"eth0", "eth0", "wlan0">>
NoAddress == "none"            \* get_address_by_interface returned None
Gone == "gone"                 \* the interface is not enumerated
\* What the host can make of each interface.
IfaceStates == [eth0 |-> {"10.0.0.5", "10.0.0.6", NoAddress},
                wlan0 |-> {"192.168.1.7", Gone}]
Unspecified == "0.0.0.0:0"
VpnAddrs == {"127.0.0.1:51820", "127.0.0.1:51821"}
DstAddr == "198.51.100.1:9000"
ClientAddrs == {"203.0.113.1:4000", "203.0.113.2:4000"}
\* A record leaves the client's table only after a fault, and an interface
\* gets a new one only when it has none; the server makes at most one record
\* per datagram of a client.
RecordIds == 1..(Cardinality(Ifaces) + MaxEvents)
Shards == {1, 2}
\* #[tokio::main] makes a runtime with one worker thread per core of the
\* host: a host with one core, and one with more cores than there are tasks.
Cores == {1, 8}

VARIABLES
  side,          \* "client" or "server": the program this run is of
  shardOf,       \* the shard the table's hasher gives each key
  workers,       \* the worker threads of the runtime the tasks run on
  faults,        \* failed calls, interface changes and interrupts so far
  nextId,        \* the next record to be created
  ntun,          \* datagrams received on the tunnel socket
  nreply,        \* datagrams received on the path sockets
  \* -- client: Service (service.rs:23-28) and the host it runs on
  excluded,      \* settings.excluded_interfaces
  listing,       \* the host: the names NetworkInterface::show() lists, in order
  ifaddr,        \* the host: interface -> eligible address, NoAddress or Gone
  routines,      \* the path table: a set of SendingRoutine records
  source_addr,   \* the shared VPN-peer cell
  shutdown,      \* the CancellationToken
  ctl,           \* Service::run: "select" or "cancelled"
  poller,        \* update_available_interfaces: its position and locals
  tunnel,        \* receive_from_wireguard: its position and locals
  readers,       \* wireguard_write_back, one per created record
  \* -- client: what has been observed so far
  fwdLog,        \* per socket: the replies sent on the tunnel socket, in order
  moved,         \* the last address change under a live path, and the polls since
  lost,          \* per interface: what the running poll and the last did for it
  \* -- server: ClientManager (manager.rs:12-15) and the tasks of main
  clients,       \* the path table: a set of Client records
  now,           \* the clock, in seconds
  cingress,      \* receive_from_client: its position and locals
  wingress,      \* receive_from_wireguard: its position and locals
  sweeper,       \* the cleanup task: its position and locals
  \* -- one datagram on its way through both programs
  wire,          \* the datagram, where it is, and the buffer of the task there
  \* -- one interface as get_address_by_interface is given it
  probe          \* its addresses, and what each of the two selectors returned

shared == <<shardOf, workers, faults, nextId, ntun, nreply>>
conly == <<excluded, listing, ifaddr, routines, source_addr, shutdown, ctl, poller,
           tunnel, readers, fwdLog, moved, lost>>
sonly == <<clients, now, cingress, wingress, sweeper>>
cvars == <<shared, conly>>
vars == <<side, shared, conly, sonly, wire, probe>>

\* ---------------------------------------------------------------- helpers
\* The run has not used up its events.
MoreEvents == ntun + nreply + faults < MaxEvents

\* The records stored under key k.
Under(table, k) == {r \in table : r.ifname = k}

TheRecord(table, k) == CHOOSE r \in table : r.ifname = k

Ids(table) == {r.id : r \in table}

\* DashMap::remove: the entry under k, if any, leaves the table.
Remove(table, k) == table \ Under(table, k)

\* DashMap::insert: the new record replaces whatever was under its key.
Insert(table, r) == Remove(table, r.ifname) \cup {r}

\* ----------------------------------------------- client: the tasks at rest
NoReader == [pc |-> "none", ifname |-> "", sock |-> 0, buf |-> 0]
ReaderDone == [NoReader EXCEPT !.pc = "done"]
PollerIdle == [pc |-> "show", ifs |-> [i \in Ifaces |-> Gone],
               drop |-> <<>>, todo |-> <<>>, cur |-> ""]
TunnelIdle == [pc |-> "recv", buf |-> 0, src_addr |-> "", shard |-> 0, seen |-> {},
               cur |-> "", drop |-> <<>>, start |-> {}, failed |-> {}]

\* A step of the client: the server's variables are not its own.
OnClient == side = "client" /\ UNCHANGED <<side, sonly, wire, probe>>

\* A step of the server.
OnServer == side = "server" /\ UNCHANGED <<side, conly, wire, probe>>

\* ------------------------------------------------ client: the shard locks
\* iter_mut() of receive_from_wireguard keeps the write lock of the shard it
\* is walking from the first entry it yields there until it moves on, across
\* the awaited send of every entry.  Every other access to a key of that
\* shard waits.
Locked(k) == tunnel.pc = "send" /\ tunnel.shard = shardOf[k]
AnyLocked == tunnel.pc = "send"

\* The orders in which an iteration of the table can yield the keys: shard
\* by shard, in any order within a shard.
ScanOrders(keys) ==
  {s \in [1..Cardinality(keys) -> keys] :
      /\ \A i, j \in DOMAIN s : i < j =>
            /\ s[i] # s[j]
            /\ shardOf[s[i]] <= shardOf[s[j]]}

\* ------------------------------------------- client: the host (environment)
IsAddress(a) == a # Gone /\ a # NoAddress

\* The observation of address changes: `ifname`, the interface whose
\* eligible address changed last while a record bound to the old one was in
\* the table; `made`, what became of the record for the new address ("wait":
\* nothing yet, "err": create_send_thread failed in the running poll, "ok":
\* inserted, "none": a poll went by without an attempt); `polls`, the polls
\* on an enumeration showing the new address that came to their end before
\* the record was inserted.
NoMove == [ifname |-> "", polls |-> 0, made |-> "wait"]

Min(a, b) == IF a < b THEN a ELSE b

\* A poll on the enumeration ifs comes to its sleep (if ended).
PollEnd(m, ifs, ended) ==
  IF ended /\ m.ifname # "" /\ ifs[m.ifname] = ifaddr[m.ifname] /\ m.made # "ok"
    THEN [m EXCEPT !.polls = Min(2, @ + 1),
                   !.made = IF @ = "err" THEN "wait" ELSE "none"]
    ELSE m

\* create_send_thread returns for interface i with address ip.
Created(m, i, ip, ok) ==
  IF m.ifname = i /\ ip = ifaddr[i]
    THEN IF ok THEN [m EXCEPT !.made = "ok", !.polls = 0]
               ELSE [m EXCEPT !.made = IF @ = "none" THEN @ ELSE "err"]
    ELSE m

\* The observation of what the polls do for each interface: "ok", the
\* running poll has found a record of it; "made", the running poll has made
\* one (its create_send_thread has returned Ok); "err", its
\* create_send_thread has failed in the running poll; "wait", it failed in
\* a poll that is over and has not succeeded since; "none", a poll that
\* enumerated the interface as one to make a path for (eligible address, not
\* excluded) came to its end and had neither found a record of it nor called
\* create_send_thread for it; "", nothing of this.
NoLoss == [i \in Ifaces |-> ""]

\* A poll on the enumeration ifs comes to its sleep (if ended).
LossPollEnd(l, ifs, ended) ==
  IF ~ended THEN l
  ELSE [i \in Ifaces |->
          IF l[i] \in {"ok", "made"} THEN ""
          ELSE IF ~IsAddress(ifs[i]) \/ i \in excluded THEN l[i]
          ELSE IF l[i] = "err" THEN "wait"
          ELSE "none"]

\* create_send_thread returns for interface i.
LossCreated(l, i, ok) ==
  [l EXCEPT ![i] = IF ok THEN "made" ELSE IF @ = "none" THEN "none" ELSE "err"]

\* An interface goes, comes back, or changes its eligible address.
EnvChange(i, a) ==
  /\ OnClient
  /\ MoreEvents
  /\ a # ifaddr[i]
  /\ ifaddr' = [ifaddr EXCEPT ![i] = a]
  /\ faults' = faults + 1
  /\ moved' = IF /\ IsAddress(a) /\ IsAddress(ifaddr[i]) /\ i \notin excluded
                  /\ \E r \in routines : r.ifname = i /\ r.src_ip = ifaddr[i]
                 THEN [NoMove EXCEPT !.ifname = i]
                 ELSE IF moved.ifname = i THEN NoMove ELSE moved
  /\ UNCHANGED <<excluded, listing, shardOf, workers, routines, nextId, source_addr, shutdown,
                 ctl, poller, tunnel, readers, ntun, nreply, fwdLog, lost>>

\* ------------------------------------------- update_available_interfaces
\* A filter of the drop list that does not compare addresses.
ShouldDropByName(r, ifs) ==
  \/ r.ifname \in excluded
  \/ ifs[r.ifname] = Gone
  \/ ifs[r.ifname] = NoAddress

\* The filter of the drop list (service.rs:94-121) for one record, against
\* the enumeration ifs.
ShouldDrop(r, ifs) ==
  \/ r.ifname \in excluded
  \/ ifs[r.ifname] = Gone
  \/ ifs[r.ifname] = NoAddress
  \/ ifs[r.ifname] # r.src_ip

\* A for loop that does not look at the excluded set.
CandidatesAll(ifs) ==
  SelectSeq(listing, LAMBDA i : ifs[i] # Gone /\ ifs[i] # NoAddress)

\* A for loop that does not ask for an eligible address.
CandidatesEnumerated(ifs) ==
  SelectSeq(listing, LAMBDA i : ifs[i] # Gone /\ i \notin excluded)

\* The interfaces of the enumeration that the for loop does not pass over
\* before it looks at the table: not excluded, with an eligible address.
Candidates(ifs) ==
  SelectSeq(listing,
            LAMBDA i : ifs[i] # Gone /\ i \notin excluded /\ ifs[i] # NoAddress)

\* A for loop without the contains_key check.
SkipNothing(todo, table) == todo

\* The turns of `for iface in interfaces` that find their name in the table
\* (contains_key) pass: what is left of todo at the first name not there.
RECURSIVE SkipPresent(_, _)
SkipPresent(todo, table) ==
  IF todo # <<>> /\ Under(table, Head(todo)) # {}
    THEN SkipPresent(Tail(todo), table)
    ELSE todo

\* The for loop has found the names it passed in the table.
LossLooked(l, todo, table) ==
  LET n == Len(todo) - Len(SkipPresent(todo, table))
  IN [i \in Ifaces |->
        IF i \in {todo[k] : k \in 1..n} /\ l[i] # "made" THEN "ok" ELSE l[i]]

\* The names whose shard the turns up to that one look into.
Touched(todo, table) ==
  LET rest == SkipPresent(todo, table)
      n == Len(todo) - Len(rest) + (IF rest = <<>> THEN 0 ELSE 1)
  IN {todo[k] : k \in 1..n}

\* Between two awaits a task runs on a worker thread of the runtime.  The
\* tasks that are in the middle of a poll: the poller at its removals and in
\* its for loop, the tunnel ingress at the removals of its drop list, and
\* the readers that hold a datagram.
Busy ==
  (IF poller.pc \in {"remove", "for"} THEN 1 ELSE 0)
  + (IF tunnel.pc = "drop" THEN 1 ELSE 0)
  + Cardinality({id \in RecordIds : readers[id].pc = "got"})

\* A task that leaves an await is polled by a worker thread that has no
\* other task in its hands.
WorkerFree == Busy < workers

\* A lock of the table is not an await: a task that finds the shard of its
\* key locked waits on the thread that polls it.  The tasks in that wait:
\* the poller at a remove or a contains_key on a shard the fan-out holds,
\* and the readers at their get_mut.
PollerParked ==
  \/ poller.pc = "remove" /\ Locked(Head(poller.drop))
  \/ poller.pc = "for" /\ \E k \in Touched(poller.todo, routines) : Locked(k)

ReadersParked ==
  {id \in RecordIds : readers[id].pc = "got" /\ Locked(readers[id].ifname)}

Parked == (IF PollerParked THEN 1 ELSE 0) + Cardinality(ReadersParked)

\* The for loop with `todo` left: at its end the poller is in the select on
\* the one-second sleep; at a name not in the table it is in
\* create_send_thread, suspended in lookup_host.
ForLoop(p, todo, table) ==
  LET rest == SkipPresent(todo, table) IN
  IF rest = <<>> THEN [PollerIdle EXCEPT !.pc = "sleep"]
                 ELSE [p EXCEPT !.pc = "create", !.cur = Head(rest),
                                !.todo = Tail(rest), !.drop = <<>>]

\* The top of the loop, at the start or after the one-second sleep:
\* NetworkInterface::show() and the collection of the drop list, whose
\* iteration takes the read lock of every shard in turn; with an empty drop
\* list the for loop follows.
UpdateAvailableInterfaces_Show ==
  /\ OnClient
  /\ WorkerFree
  /\ poller.pc \in {"show", "sleep"}
  /\ ~AnyLocked
  /\ LET ifs == ifaddr
         keys == {r.ifname : r \in {x \in routines : ShouldDrop(x, ifs)}}
     IN \E order \in ScanOrders(keys) :
          /\ poller' = IF keys = {}
                         THEN ForLoop([poller EXCEPT !.ifs = ifs],
                                      Candidates(ifs), routines)
                         ELSE [poller EXCEPT !.pc = "remove", !.ifs = ifs,
                                             !.drop = order]
          /\ moved' = PollEnd(moved, ifs, keys = {} /\ poller'.pc = "sleep")
          /\ lost' = IF keys # {} THEN lost
                      ELSE LossPollEnd(LossLooked(lost, Candidates(ifs), routines),
                                       ifs, poller'.pc = "sleep")
  /\ UNCHANGED <<excluded, listing, shardOf, workers, ifaddr, faults, routines, nextId,
                 source_addr, shutdown, ctl, tunnel, readers, ntun, nreply,
                 fwdLog>>

\* NetworkInterface::show()? fails: the task ends with the error.
UpdateAvailableInterfaces_ShowErr ==
  /\ OnClient
  /\ WorkerFree
  /\ poller.pc \in {"show", "sleep"}
  /\ MoreEvents
  /\ faults' = faults + 1
  /\ poller' = [PollerIdle EXCEPT !.pc = "done"]
  /\ UNCHANGED <<excluded, listing, shardOf, workers, ifaddr, routines, nextId,
                 source_addr, shutdown, ctl, tunnel, readers, ntun, nreply,
                 fwdLog, moved, lost>>

\* self.routines.remove(&key) for the next key of the drop list.
UpdateAvailableInterfaces_Remove ==
  /\ OnClient
  /\ poller.pc = "remove"
  /\ ~Locked(Head(poller.drop))
  /\ routines' = Remove(routines, Head(poller.drop))
  /\ poller' = IF Tail(poller.drop) = <<>>
                 THEN [poller EXCEPT !.pc = "for", !.drop = <<>>,
                                     !.todo = Candidates(poller.ifs)]
                 ELSE [poller EXCEPT !.drop = Tail(poller.drop)]
  /\ UNCHANGED <<excluded, listing, shardOf, workers, ifaddr, faults, nextId, source_addr,
                 shutdown, ctl, tunnel, readers, ntun, nreply, fwdLog, moved, lost>>

\* The for loop goes on, after the removals or after a create_send_thread.
UpdateAvailableInterfaces_For ==
  /\ OnClient
  /\ poller.pc = "for"
  /\ \A k \in Touched(poller.todo, routines) : ~Locked(k)
  /\ poller' = ForLoop(poller, poller.todo, routines)
  /\ moved' = PollEnd(moved, poller.ifs, poller'.pc = "sleep")
  /\ lost' = LossPollEnd(LossLooked(lost, poller.todo, routines), poller.ifs,
                         poller'.pc = "sleep")
  /\ UNCHANGED <<excluded, listing, shardOf, workers, ifaddr, faults, routines, nextId,
                 source_addr, shutdown, ctl, tunnel, readers, ntun, nreply,
                 fwdLog>>

\* SendingRoutine::new (types.rs:42-59).  With the fields of the struct a
\* record carries what its socket has done: `sent`, the tunnel datagrams
\* sent on it in order, and `sock_err`, whether a call on it has failed.
\* A record whose socket is bound to the wildcard address.
NewRoutineAnyAddr(i, ip, id) ==
  [ifname |-> i, id |-> id, src_ip |-> "0.0.0.0", dst_addr |-> DstAddr,
   last_received_at |-> 0, total_received_bytes |-> 0, is_closing |-> FALSE,
   sent |-> <<>>, sock_err |-> FALSE]

NewRoutine(i, ip, id) ==
  [ifname |-> i, id |-> id, src_ip |-> ip, dst_addr |-> DstAddr,
   last_received_at |-> 0, total_received_bytes |-> 0, is_closing |-> FALSE,
   sent |-> <<>>, sock_err |-> FALSE]

\* A poller that ends its poll at the first create_send_thread.
AfterCreateStop(p) == [PollerIdle EXCEPT !.pc = "sleep"]

\* Back in the for loop after create_send_thread.
AfterCreate(p) ==
  IF p.todo = <<>> THEN [PollerIdle EXCEPT !.pc = "sleep"]
                   ELSE [p EXCEPT !.pc = "for", !.cur = ""]

\* create_send_thread fails in lookup_host, bind or bind_device: the poller
\* logs and goes on with the next interface.
CreateSendThread_Err ==
  /\ OnClient
  /\ WorkerFree
  /\ poller.pc = "create"
  /\ MoreEvents
  /\ faults' = faults + 1
  /\ poller' = AfterCreate(poller)
  /\ moved' = PollEnd(Created(moved, poller.cur, poller.ifs[poller.cur], FALSE),
                      poller.ifs, poller'.pc = "sleep")
  /\ lost' = LossPollEnd(LossCreated(lost, poller.cur, FALSE), poller.ifs,
                         poller'.pc = "sleep")
  /\ UNCHANGED <<excluded, listing, shardOf, workers, ifaddr, routines, nextId,
                 source_addr, shutdown, ctl, tunnel, readers, ntun, nreply, fwdLog>>

\* create_send_thread succeeds: the record is inserted and its reader spawned.
\* A record found under the name is the panic of service.rs:188.
CreateSendThread_Ok ==
  /\ OnClient
  /\ WorkerFree
  /\ poller.pc = "create"
  /\ nextId \in RecordIds
  /\ ~Locked(poller.cur)
  /\ LET i == poller.cur
         r == NewRoutine(i, poller.ifs[i], nextId)
     IN /\ routines' = Insert(routines, r)
        /\ IF Under(routines, i) # {}
             THEN /\ poller' = [PollerIdle EXCEPT !.pc = "done"]
                  /\ UNCHANGED <<readers, moved, lost>>
             ELSE /\ poller' = AfterCreate(poller)
                  /\ readers' = [readers EXCEPT ![nextId] =
                                   [NoReader EXCEPT !.pc = "top", !.ifname = i]]
                  /\ moved' = PollEnd(Created(moved, i, poller.ifs[i], TRUE),
                                      poller.ifs, poller'.pc = "sleep")
                  /\ lost' = LossPollEnd(LossCreated(lost, i, TRUE), poller.ifs,
                                         poller'.pc = "sleep")
  /\ nextId' = nextId + 1
  /\ UNCHANGED <<excluded, listing, shardOf, workers, ifaddr, faults, source_addr, shutdown,
                 ctl, tunnel, ntun, nreply, fwdLog>>

\* The select at the end of the loop: the shutdown signal wins.
UpdateAvailableInterfaces_Cancelled ==
  /\ OnClient
  /\ WorkerFree
  /\ poller.pc = "sleep"
  /\ shutdown
  /\ poller' = [PollerIdle EXCEPT !.pc = "done"]
  /\ UNCHANGED <<excluded, listing, shardOf, workers, ifaddr, faults, routines, nextId,
                 source_addr, shutdown, ctl, tunnel, readers, ntun, nreply, fwdLog, moved, lost>>

\* ------------------------------------------ receive_from_wireguard (client)
ShardRecords(table, s) == {r \in table : shardOf[r.ifname] = s}

\* The iterator's next() from shard `shard` with `seen` already yielded
\* there: the entries it can yield, each with the iterator's new position.
\* It yields from the shard it holds, else from the next shard that has an
\* entry (taking that lock, releasing the one held); none at the end.
NextEntries(table, shard, seen) ==
  LET here == {r \in ShardRecords(table, shard) : r.ifname \notin seen}
      later == {s \in Shards : s > shard /\ ShardRecords(table, s) # {}}
      next == CHOOSE s \in later : \A t \in later : s <= t
  IN IF here # {}
       THEN {[shard |-> shard, cur |-> r.ifname, seen |-> seen \cup {r.ifname}] :
               r \in here}
       ELSE IF later # {}
         THEN {[shard |-> next, cur |-> r.ifname, seen |-> {r.ifname}] :
                 r \in ShardRecords(table, next)}
         ELSE {}

\* The tunnel ingress with the iterator moved on: suspended in the send of
\* the entry yielded, or past the iteration.
Advance(t, table) ==
  LET nxt == NextEntries(table, t.shard, t.seen) IN
  IF nxt = {}
    THEN {[t EXCEPT !.pc = IF t.drop = <<>> THEN "recv" ELSE "drop",
                    !.shard = 0, !.seen = {}, !.cur = ""]}
    ELSE {[t EXCEPT !.pc = "send", !.shard = e.shard, !.seen = e.seen,
                    !.cur = e.cur] : e \in nxt}

\* recv_from returns a datagram from src: the cell is written and the
\* fan-out starts, up to the first send.
ReceiveFromWireguard_Recv(src) ==
  /\ OnClient
  /\ WorkerFree
  /\ tunnel.pc = "recv"
  /\ MoreEvents
  /\ source_addr' = src
  /\ ntun' = ntun + 1
  /\ tunnel' \in Advance([TunnelIdle EXCEPT !.buf = ntun + 1,
                                             !.src_addr = src,
                                             !.start = Ids(routines)],
                         routines)
  /\ UNCHANGED <<excluded, listing, shardOf, workers, ifaddr, faults, routines, nextId,
                 shutdown, ctl, poller, readers, nreply, fwdLog, moved, lost>>

\* recv_from returns an error: logged, the loop goes on.
ReceiveFromWireguard_RecvErr ==
  /\ OnClient
  /\ WorkerFree
  /\ tunnel.pc = "recv"
  /\ UNCHANGED cvars

\* The select: the shutdown signal wins.
ReceiveFromWireguard_Cancelled ==
  /\ OnClient
  /\ WorkerFree
  /\ tunnel.pc = "recv"
  /\ shutdown
  /\ tunnel' = [TunnelIdle EXCEPT !.pc = "done"]
  /\ UNCHANGED <<excluded, listing, shardOf, workers, ifaddr, faults, routines, nextId,
                 source_addr, shutdown, ctl, poller, readers, ntun, nreply, fwdLog, moved, lost>>

\* SendingRoutine::send_to (types.rs:61-81) returns: None after a send, the
\* interface name after an error, which filter_map collects; then the
\* iterator moves on.
ReceiveFromWireguard_SendDone(ok) ==
  /\ OnClient
  /\ WorkerFree
  /\ tunnel.pc = "send"
  /\ ok \/ MoreEvents
  /\ faults' = IF ok THEN faults ELSE faults + 1
  /\ LET r == TheRecord(routines, tunnel.cur)
         table == (routines \ {r}) \cup
                    {[r EXCEPT !.sent = Append(@, tunnel.buf),
                               !.sock_err = @ \/ ~ok]}
     IN /\ routines' = table
        /\ tunnel' \in Advance(
             [tunnel EXCEPT !.drop = IF ok THEN @ ELSE Append(@, r.ifname),
                            !.failed = IF ok THEN @ ELSE @ \cup {r.id}],
             table)
  /\ UNCHANGED <<excluded, listing, shardOf, workers, ifaddr, nextId, source_addr, shutdown,
                 ctl, poller, readers, ntun, nreply, fwdLog, moved, lost>>

\* A tunnel ingress that lets its drop list go without removing.
ReceiveFromWireguard_NoRemove ==
  /\ OnClient
  /\ tunnel.pc = "drop"
  /\ tunnel' = [tunnel EXCEPT !.drop = <<>>, !.pc = "recv"]
  /\ UNCHANGED <<excluded, listing, shardOf, workers, ifaddr, faults, routines, nextId,
                 source_addr, shutdown, ctl, poller, readers, ntun, nreply,
                 fwdLog, moved, lost>>

\* self.routines.remove(&ifname) for the next name of the drop list.
ReceiveFromWireguard_Remove ==
  /\ OnClient
  /\ tunnel.pc = "drop"
  /\ routines' = Remove(routines, Head(tunnel.drop))
  /\ tunnel' = [tunnel EXCEPT !.drop = Tail(@),
                  !.pc = IF Tail(tunnel.drop) = <<>> THEN "recv" ELSE "drop"]
  /\ UNCHANGED <<excluded, listing, shardOf, workers, ifaddr, faults, nextId, source_addr,
                 shutdown, ctl, poller, readers, ntun, nreply,
                 fwdLog, moved, lost>>

\* ---------------------------------------------------- wireguard_write_back
\* The top of the loop: the lookup of the record under the reader's name.
\* No record ends the task with an error, a closing one ends it; else the
\* reader takes the record's socket and suspends in recv_from.
WireguardWriteBack_Top(id) ==
  /\ OnClient
  /\ WorkerFree
  /\ readers[id].pc = "top"
  /\ ~Locked(readers[id].ifname)
  /\ LET here == Under(routines, readers[id].ifname)
         r == TheRecord(routines, readers[id].ifname)
     IN readers' = [readers EXCEPT ![id] =
          IF here = {} \/ r.is_closing
            THEN ReaderDone
            ELSE [@ EXCEPT !.pc = "recv", !.sock = r.id]]
  /\ UNCHANGED <<excluded, listing, shardOf, workers, ifaddr, faults, routines, nextId,
                 source_addr, shutdown, ctl, poller, tunnel, ntun, nreply, fwdLog, moved, lost>>

\* recv_from on the socket returns a datagram.
WireguardWriteBack_Recv(id) ==
  /\ OnClient
  /\ WorkerFree
  /\ readers[id].pc = "recv"
  /\ MoreEvents
  /\ nreply' = nreply + 1
  /\ readers' = [readers EXCEPT ![id].pc = "got", ![id].buf = nreply + 1]
  /\ UNCHANGED <<excluded, listing, shardOf, workers, ifaddr, faults, routines, nextId,
                 source_addr, shutdown, ctl, poller, tunnel, ntun, fwdLog, moved, lost>>

\* A reader that sends to the address the cell was made with.
InitialAddr == Unspecified

\* The read of the cell (service.rs:231).
wg_addr == source_addr

\* After a datagram: get_mut of the record under the name (none ends the
\* task with an error), the update of its counters, the read of the cell,
\* and the send on the tunnel socket, whose error ends the task.
WireguardWriteBack_Forward(id, sent) ==
  /\ OnClient
  /\ readers[id].pc = "got"
  /\ ~Locked(readers[id].ifname)
  /\ LET here == Under(routines, readers[id].ifname)
         r == TheRecord(routines, readers[id].ifname)
     IN IF here = {}
          THEN /\ sent
               /\ readers' = [readers EXCEPT ![id] = ReaderDone]
               /\ UNCHANGED <<routines, fwdLog, faults>>
          ELSE /\ sent \/ MoreEvents
               /\ faults' = IF sent THEN faults ELSE faults + 1
               /\ routines' = (routines \ {r}) \cup
                    {[r EXCEPT !.last_received_at = readers[id].buf,
                               !.total_received_bytes = @ + 1]}
               /\ fwdLog' = [fwdLog EXCEPT ![readers[id].sock] =
                               Append(@, [n |-> readers[id].buf,
                                          dst |-> wg_addr,
                                          after |-> ntun])]
               /\ readers' = [readers EXCEPT ![id] =
                                IF sent THEN [@ EXCEPT !.pc = "top", !.buf = 0]
                                        ELSE ReaderDone]
  /\ UNCHANGED <<excluded, listing, shardOf, workers, ifaddr, nextId, source_addr, shutdown,
                 ctl, poller, tunnel, ntun, nreply, moved, lost>>

\* A reader that takes the record out of the table after an error.
WireguardWriteBack_RecvErrRemoves(id) ==
  /\ OnClient
  /\ WorkerFree
  /\ readers[id].pc = "recv"
  /\ ~Locked(readers[id].ifname)
  /\ MoreEvents
  /\ faults' = faults + 1
  /\ routines' = Remove(routines, readers[id].ifname)
  /\ readers' = [readers EXCEPT ![id] = ReaderDone]
  /\ UNCHANGED <<excluded, listing, shardOf, workers, ifaddr, nextId, source_addr, shutdown,
                 ctl, poller, tunnel, ntun, nreply, fwdLog, moved, lost>>

\* recv_from on the socket returns an error: get_mut of the record under the
\* name (none ends the task with an error), routine.is_closing = true, and
\* the loop goes on.
WireguardWriteBack_RecvErr(id) ==
  /\ OnClient
  /\ WorkerFree
  /\ readers[id].pc = "recv"
  /\ ~Locked(readers[id].ifname)
  /\ MoreEvents
  /\ faults' = faults + 1
  /\ LET here == Under(routines, readers[id].ifname)
         r == TheRecord(routines, readers[id].ifname)
         mark(x) == IF x.id = readers[id].sock
                      THEN [x EXCEPT !.sock_err = TRUE] ELSE x
         table == {mark(x) : x \in routines}
     IN IF here = {}
          THEN /\ readers' = [readers EXCEPT ![id] = ReaderDone]
               /\ routines' = table
          ELSE /\ routines' = (table \ {mark(r)}) \cup
                                {[mark(r) EXCEPT !.is_closing = TRUE]}
               /\ readers' = [readers EXCEPT ![id].pc = "top"]
  /\ UNCHANGED <<excluded, listing, shardOf, workers, ifaddr, nextId, source_addr, shutdown,
                 ctl, poller, tunnel, ntun, nreply, fwdLog, moved, lost>>

\* The select: the shutdown signal wins.
WireguardWriteBack_Cancelled(id) ==
  /\ OnClient
  /\ WorkerFree
  /\ readers[id].pc = "recv"
  /\ shutdown
  /\ readers' = [readers EXCEPT ![id] = ReaderDone]
  /\ UNCHANGED <<excluded, listing, shardOf, workers, ifaddr, faults, routines, nextId,
                 source_addr, shutdown, ctl, poller, tunnel, ntun, nreply, fwdLog, moved, lost>>

\* ------------------------------------------------------------ Service::run
\* The select of run: ctrl-c, or one of the two joined tasks has ended; then
\* self.shutdown.cancel() and the return.
Run_Cancel(interrupt) ==
  /\ OnClient
  /\ ctl = "select"
  /\ IF interrupt THEN MoreEvents
                  ELSE poller.pc = "done" \/ tunnel.pc = "done"
  /\ faults' = IF interrupt THEN faults + 1 ELSE faults
  /\ shutdown' = TRUE
  /\ ctl' = "cancelled"
  /\ UNCHANGED <<excluded, listing, shardOf, workers, ifaddr, routines, nextId,
                 source_addr, poller, tunnel, readers, ntun, nreply,
                 fwdLog, moved, lost>>

ClientNext ==
  \/ \E i \in Ifaces : \E a \in IfaceStates[i] : EnvChange(i, a)
  \/ UpdateAvailableInterfaces_Show
  \/ UpdateAvailableInterfaces_ShowErr
  \/ UpdateAvailableInterfaces_Remove
  \/ UpdateAvailableInterfaces_For
  \/ CreateSendThread_Err
  \/ CreateSendThread_Ok
  \/ UpdateAvailableInterfaces_Cancelled
  \/ \E src \in VpnAddrs : ReceiveFromWireguard_Recv(src)
  \/ ReceiveFromWireguard_RecvErr
  \/ ReceiveFromWireguard_Cancelled
  \/ \E ok \in BOOLEAN : ReceiveFromWireguard_SendDone(ok)
  \/ ReceiveFromWireguard_Remove
  \/ \E id \in RecordIds :
       \/ WireguardWriteBack_Top(id)
       \/ WireguardWriteBack_Recv(id)
       \/ \E sent \in BOOLEAN : WireguardWriteBack_Forward(id, sent)
       \/ WireguardWriteBack_RecvErr(id)
       \/ WireguardWriteBack_Cancelled(id)
  \/ \E interrupt \in BOOLEAN : Run_Cancel(interrupt)

\* ------------------------------------------------------------------ server
\* ------------------------------------------------------------ server: Init
IngressIdle == [pc |-> "recv", src |-> "", buf |-> 0]
WgIdle == [pc |-> "recv", buf |-> 0, received_at |-> 0, shard |-> 0,
           seen |-> {}, cur |-> "", drop |-> <<>>, start |-> {}, failed |-> {}]
SweeperIdle == [pc |-> "sleep", wake |-> SweepPeriod, drop |-> <<>>]

\* ClientManager::new: an empty table; the three tasks of main at their
\* first await, the cleanup task in its first sleep.
ServerIdle ==
  /\ clients = {}
  /\ now = 0
  /\ cingress = IngressIdle
  /\ wingress = WgIdle
  /\ sweeper = SweeperIdle

\* ------------------------------------------------- server: the path table
ClientsUnder(table, a) == {c \in table : c.addr = a}

\* DashMap::remove on the server's table.
RemoveClient(table, a) == table \ ClientsUnder(table, a)

\* Client::new at time t.  With the fields of the struct a record carries
\* `id`, which tells it from an earlier record of the same address, `seq`,
\* the last datagram of the client it has seen, and `sent`, the tunnel
\* datagrams sent to it, in order.
Client_new(a, id, t, n) ==
  [addr |-> a, id |-> id, last_received_at |-> t, total_received_bytes |-> 0,
   seq |-> n, sent |-> <<>>]

\* An update that counts the bytes and leaves the timestamp.
Client_updateBytesOnly(c, t, n) ==
  [c EXCEPT !.total_received_bytes = @ + 1, !.seq = n]

\* Client::update at time t.
Client_update(c, t, n) ==
  [c EXCEPT !.last_received_at = t, !.total_received_bytes = @ + 1, !.seq = n]

\* An entry() that inserts without looking for the key.
InsertAnew(table, a, id, t, n) == table \cup {Client_new(a, id, t, n)}

\* clients.entry(src).and_modify(update).or_insert_with(Client::new).
Upsert(table, a, id, t, n) ==
  IF ClientsUnder(table, a) = {}
    THEN table \cup {Client_new(a, id, t, n)}
    ELSE {IF c.addr = a THEN Client_update(c, t, n) ELSE c : c \in table}

\* iter() of receive_from_wireguard keeps the read lock of the shard it is
\* walking, across the awaited send of every entry: entry() and remove() on
\* a key of that shard wait, iter() of the cleanup task does not.
SLocked(a) == wingress.pc = "send" /\ wingress.shard = shardOf[a]

\* The tasks of the server in the middle of a poll: the tunnel ingress at
\* the removals of its drop list, the cleanup task at its removals.
SBusy ==
  (IF wingress.pc = "drop" THEN 1 ELSE 0)
  + (IF sweeper.pc = "remove" THEN 1 ELSE 0)

\* A worker thread of the server is free to poll a task.
SWorkerFree == SBusy < workers

\* The cleanup task waits on its thread at a remove on a shard the fan-out
\* holds.
SParked == IF sweeper.pc = "remove" /\ SLocked(Head(sweeper.drop)) THEN 1 ELSE 0

\* main awaits the client ingress, then the tunnel ingress, whose panic it
\* unwraps: with both ended the process is gone.
Running == ~(cingress.pc = "done" /\ wingress.pc = "done")

\* ------------------------------------------------------ receive_from_client
\* recv_from returns a datagram of src; the entry of src is made or updated.
ReceiveFromClient_Recv(src) ==
  /\ OnServer
  /\ SWorkerFree
  /\ cingress.pc = "recv"
  /\ MoreEvents
  /\ ~SLocked(src)
  /\ nreply' = nreply + 1
  /\ clients' = Upsert(clients, src, nextId, now, nreply + 1)
  /\ nextId' = IF ClientsUnder(clients, src) = {} THEN nextId + 1 ELSE nextId
  /\ cingress' = [pc |-> "fwd", src |-> src, buf |-> nreply + 1]
  /\ UNCHANGED <<shardOf, workers, faults, ntun, now, wingress, sweeper>>

\* recv_from fails: the task ends with the error, which main logs.
ReceiveFromClient_RecvErr ==
  /\ OnServer
  /\ SWorkerFree
  /\ cingress.pc = "recv"
  /\ MoreEvents
  /\ faults' = faults + 1
  /\ cingress' = [IngressIdle EXCEPT !.pc = "done"]
  /\ UNCHANGED <<shardOf, workers, nextId, ntun, nreply, clients, now, wingress,
                 sweeper>>

\* wireguard_socket.send_to returns: the loop goes on, or the task ends with
\* the error.
ReceiveFromClient_Forward(ok) ==
  /\ OnServer
  /\ SWorkerFree
  /\ cingress.pc = "fwd"
  /\ ok \/ MoreEvents
  /\ faults' = IF ok THEN faults ELSE faults + 1
  /\ cingress' = IF ok THEN IngressIdle ELSE [IngressIdle EXCEPT !.pc = "done"]
  /\ UNCHANGED <<shardOf, workers, nextId, ntun, nreply, clients, now, wingress,
                 sweeper>>

\* ------------------------------------------ receive_from_wireguard (server)
ShardClients(table, s) == {c \in table : shardOf[c.addr] = s}

\* A check that drops a client at the bound already.
TimedOutAtBound(c, received_at) ==
  received_at - c.last_received_at >= ClientTimeout

\* The check of connection.rs:36.
TimedOut(c, received_at) == received_at - c.last_received_at > ClientTimeout

\* The iterator's next(), as on the client.
NextClients(table, shard, seen) ==
  LET here == {c \in ShardClients(table, shard) : c.addr \notin seen}
      later == {s \in Shards : s > shard /\ ShardClients(table, s) # {}}
      next == CHOOSE s \in later : \A t \in later : s <= t
  IN IF here # {}
       THEN {[shard |-> shard, c |-> c, seen |-> seen \cup {c.addr}] : c \in here}
       ELSE IF later # {}
         THEN {[shard |-> next, c |-> c, seen |-> {c.addr}] :
                 c \in ShardClients(table, next)}
         ELSE {}

\* The tunnel ingress with the iterator moved on: an entry that has timed
\* out goes to the drop list at once and the iterator moves on again; at
\* another the task suspends in send_to; at the end the iteration is over.
RECURSIVE WgAdvance(_, _)
WgAdvance(t, table) ==
  LET nxt == NextClients(table, t.shard, t.seen) IN
  IF nxt = {}
    THEN {[t EXCEPT !.pc = IF t.drop = <<>> THEN "recv" ELSE "drop",
                    !.shard = 0, !.seen = {}, !.cur = ""]}
    ELSE UNION {
      IF TimedOut(e.c, t.received_at)
        THEN WgAdvance([t EXCEPT !.shard = e.shard, !.seen = e.seen,
                          !.drop = Append(@, e.c.addr),
                          !.failed = @ \cup {[id |-> e.c.id, seq |-> e.c.seq]}],
                       table)
        ELSE {[t EXCEPT !.pc = "send", !.shard = e.shard, !.seen = e.seen,
                        !.cur = e.c.addr]}
      : e \in nxt}

\* recv returns a datagram: the timestamp is taken and the fan-out starts,
\* up to the first send.
WgReceive_Recv ==
  /\ OnServer
  /\ SWorkerFree
  /\ wingress.pc = "recv"
  /\ MoreEvents
  /\ ntun' = ntun + 1
  /\ wingress' \in WgAdvance([WgIdle EXCEPT !.buf = ntun + 1,
                                            !.received_at = now,
                                            !.start = {c.id : c \in clients}],
                             clients)
  /\ UNCHANGED <<shardOf, workers, faults, nextId, nreply, clients, now, cingress,
                 sweeper>>

\* recv fails: the function returns the error and the task panics.
WgReceive_RecvErr ==
  /\ OnServer
  /\ SWorkerFree
  /\ wingress.pc = "recv"
  /\ MoreEvents
  /\ faults' = faults + 1
  /\ wingress' = [WgIdle EXCEPT !.pc = "done"]
  /\ UNCHANGED <<shardOf, workers, nextId, ntun, nreply, clients, now, cingress,
                 sweeper>>

\* client_socket.send_to returns: after an error the address goes to the
\* drop list; then the iterator moves on.
WgReceive_SendDone(ok) ==
  /\ OnServer
  /\ SWorkerFree
  /\ wingress.pc = "send"
  /\ ok \/ MoreEvents
  /\ faults' = IF ok THEN faults ELSE faults + 1
  /\ LET c == CHOOSE x \in clients : x.addr = wingress.cur
         table == (clients \ {c}) \cup
                    {[c EXCEPT !.sent = Append(@, wingress.buf)]}
     IN /\ clients' = table
        /\ wingress' \in WgAdvance(
             [wingress EXCEPT
                !.drop = IF ok THEN @ ELSE Append(@, c.addr),
                !.failed = IF ok THEN @
                           ELSE @ \cup {[id |-> c.id, seq |-> c.seq]}],
             table)
  /\ UNCHANGED <<shardOf, workers, nextId, ntun, nreply, now, cingress, sweeper>>

\* clients.remove(&addr) for the next address of the drop list.
WgReceive_Remove ==
  /\ OnServer
  /\ wingress.pc = "drop"
  /\ clients' = RemoveClient(clients, Head(wingress.drop))
  /\ wingress' = [wingress EXCEPT !.drop = Tail(@),
                    !.pc = IF Tail(wingress.drop) = <<>> THEN "recv" ELSE "drop"]
  /\ UNCHANGED <<shardOf, workers, faults, nextId, ntun, nreply, now, cingress,
                 sweeper>>

\* ---------------------------------------------------------- the cleanup task
\* A filter that lets every entry stay.
NeverExpired(c, t) == FALSE

\* The filter of cleanup_timeout_clients (manager.rs:52).
Expired(c, t) == t - c.last_received_at > ClientTimeout

\* The orders in which iter() can yield a set of addresses.
AddrOrders(as) ==
  {s \in [1..Cardinality(as) -> as] :
      \A i, j \in DOMAIN s : i < j =>
         /\ s[i] # s[j]
         /\ shardOf[s[i]] <= shardOf[s[j]]}

\* The sleep of five seconds is over: cleanup_timeout_clients takes the
\* time and collects the addresses of the expired entries; with none the
\* task sleeps again.
Cleanup_Collect ==
  /\ OnServer
  /\ SWorkerFree
  /\ Running
  /\ sweeper.pc = "sleep"
  /\ now >= sweeper.wake
  /\ \E order \in AddrOrders({c.addr : c \in {x \in clients : Expired(x, now)}}) :
       sweeper' = IF order = <<>>
                    THEN [SweeperIdle EXCEPT !.wake = now + SweepPeriod]
                    ELSE [sweeper EXCEPT !.pc = "remove", !.drop = order]
  /\ UNCHANGED <<shared, clients, now, cingress, wingress>>

\* remove_client for the next address collected; after the last the task
\* sleeps again.
Cleanup_Remove ==
  /\ OnServer
  /\ Running
  /\ sweeper.pc = "remove"
  /\ ~SLocked(Head(sweeper.drop))
  /\ clients' = RemoveClient(clients, Head(sweeper.drop))
  /\ sweeper' = IF Tail(sweeper.drop) = <<>>
                  THEN [SweeperIdle EXCEPT !.wake = now + SweepPeriod]
                  ELSE [sweeper EXCEPT !.drop = Tail(@)]
  /\ UNCHANGED <<shared, now, cingress, wingress>>

\* ------------------------------------------------------------------ the clock
\* A second passes.  The timer of the cleanup task fires on time and the
\* cleanup takes none: the clock does not pass the wake-up of a sleeping
\* cleanup task and stands while it removes.
Tick ==
  /\ OnServer
  /\ Running
  /\ now < MaxTime
  /\ sweeper.pc = "sleep"
  /\ now < sweeper.wake
  /\ now' = now + 1
  /\ UNCHANGED <<shared, clients, cingress, wingress, sweeper>>

ServerNext ==
  \/ \E src \in ClientAddrs : ReceiveFromClient_Recv(src)
  \/ ReceiveFromClient_RecvErr
  \/ \E ok \in BOOLEAN : ReceiveFromClient_Forward(ok)
  \/ WgReceive_Recv
  \/ WgReceive_RecvErr
  \/ \E ok \in BOOLEAN : WgReceive_SendDone(ok)
  \/ WgReceive_Remove
  \/ Cleanup_Collect
  \/ Cleanup_Remove
  \/ Tick

\* -------------------------------------------------- the way of a datagram
\* A datagram is a sequence of bytes.  Up: from the VPN daemon through the
\* client's tunnel ingress, over a path, through the server's client
\* ingress to the upstream socket.  Down: from the upstream socket through
\* the server's tunnel ingress, over a path, through the client's reader to
\* the VPN daemon.  `stage` counts the calls made on it: 0 in flight to the
\* first program, 1 in its buffer, 2 in flight to the second, 3 in its
\* buffer, 4 sent on.
NoWire == [dir |-> "", stage |-> 0, orig |-> <<>>, data |-> <<>>,
           buf |-> <<>>, received_bytes |-> 0]

Lengths == {0, 1, 2} \cup ((BUFFER_SIZE - 1)..MaxLen)
Patterns == {1, 2}
Byte(p, k) == IF p = 1 THEN k % 256 ELSE 255 - ((7 * k) % 256)
Datagram(len, p) == [k \in 1..len |-> Byte(p, k)]

\* `let mut buf = [0; BUFFER_SIZE]`, or what an earlier datagram left in it.
Buffers == {[k \in 1..BUFFER_SIZE |-> 0], [k \in 1..BUFFER_SIZE |-> 170]}

\* recv / recv_from of a datagram d into buf: the bytes that fit are written
\* over the start of the buffer, the rest of d is lost; the count returned.
ReceivedBytes(d) == Min(Len(d), BUFFER_SIZE)
RecvInto(buf, d) ==
  [k \in 1..BUFFER_SIZE |-> IF k <= ReceivedBytes(d) THEN d[k] ELSE buf[k]]

\* A send of the buffer as it is.
WholeBuffer(buf, n) == buf

\* &buf[..received_bytes], the argument of every send_to.
Slice(buf, n) == SubSeq(buf, 1, n)

OnWire(d, s) ==
  /\ side = "payload"
  /\ wire.dir = d
  /\ wire.stage = s
  /\ UNCHANGED <<side, shared, conly, sonly, probe>>

Received(fresh) ==
  [wire EXCEPT !.stage = @ + 1, !.buf = RecvInto(fresh, wire.data),
               !.received_bytes = ReceivedBytes(wire.data)]

Sent ==
  [wire EXCEPT !.stage = @ + 1, !.data = Slice(wire.buf, wire.received_bytes)]

\* Client, receive_from_wireguard: recv_from on the tunnel socket.
Up_ClientRecv == OnWire("up", 0) /\ \E b \in Buffers : wire' = Received(b)
\* Client, SendingRoutine::send_to on a path.
Up_ClientSend == OnWire("up", 1) /\ wire' = Sent
\* Server, receive_from_client: recv_from on the client-facing socket.
Up_ServerRecv == OnWire("up", 2) /\ \E b \in Buffers : wire' = Received(b)
\* Server, receive_from_client: send_to on the upstream socket.
Up_ServerSend == OnWire("up", 3) /\ wire' = Sent
\* Server, receive_from_wireguard: recv on the upstream socket.
Down_ServerRecv == OnWire("down", 0) /\ \E b \in Buffers : wire' = Received(b)
\* Server, receive_from_wireguard: send_to a client.
Down_ServerSend == OnWire("down", 1) /\ wire' = Sent
\* Client, wireguard_write_back: recv_from on the path socket.
Down_ClientRecv == OnWire("down", 2) /\ \E b \in Buffers : wire' = Received(b)
\* Client, wireguard_write_back: send_to on the tunnel socket.
Down_ClientSend == OnWire("down", 3) /\ wire' = Sent

PayloadNext ==
  \/ Up_ClientRecv
  \/ Up_ClientSend
  \/ Up_ServerRecv
  \/ Up_ServerSend
  \/ Down_ServerRecv
  \/ Down_ServerSend
  \/ Down_ClientRecv
  \/ Down_ClientSend

\* ------------------------------------------- get_address_by_interface
\* An address of an interface: IpAddr::V4 with its four octets, or
\* IpAddr::V6 with its eight segments.
V4(a, b, c, d) == [v |-> 4, o |-> <<a, b, c, d>>]
V6(segments) == [v |-> 6, o |-> segments]

\* The addresses an interface is given in the model: private ones of the
\* three ranges and their neighbours, loopback, link-local, both ends of
\* the multicast range and its neighbours, other IPv4, and IPv6.
IpAddrs ==
  {V4(10, 0, 0, 5), V4(172, 16, 0, 1), V4(172, 32, 0, 1), V4(192, 168, 1, 7),
   V4(127, 0, 0, 1), V4(169, 254, 1, 1), V4(224, 0, 0, 1),
   V4(239, 255, 255, 250), V4(223, 255, 255, 1), V4(240, 0, 0, 1),
   V4(8, 8, 8, 8), V4(0, 0, 0, 0),
   V6(<<65152, 0, 0, 0, 0, 0, 0, 1>>),         \* fe80::1
   V6(<<0, 0, 0, 0, 0, 65535, 2560, 5>>)}      \* ::ffff:10.0.0.5

\* Ipv4Addr::is_private, is_loopback, is_link_local, is_multicast.
IsPrivate(ip) ==
  \/ ip.o[1] = 10
  \/ ip.o[1] = 172 /\ ip.o[2] \in 16..31
  \/ ip.o[1] = 192 /\ ip.o[2] = 168
IsLoopback(ip) == ip.o[1] = 127
IsLinkLocal(ip) == ip.o[1] = 169 /\ ip.o[2] = 254
IsMulticast(ip) == ip.o[1] \in 224..239

\* Option<IpAddr>.
None == <<>>
Some(ip) == <<ip>>

\* A closure without the test for multicast.
FindMapClosure_ServiceAnyV4(ip) ==
  IF ip.v = 4 THEN Some(ip) ELSE None

\* The closure of the poller's selector (service.rs): what it returns for
\* one address.
FindMapClosure_Service(ip) ==
  IF ip.v = 4
    THEN IF IsPrivate(ip) THEN Some(ip)
         ELSE IF IsLoopback(ip) THEN Some(ip)
         ELSE IF IsLinkLocal(ip) THEN Some(ip)
         ELSE IF IsMulticast(ip) THEN None
         ELSE Some(ip)
    ELSE None

\* The closure of list-interfaces' selector (main.rs).
FindMapClosure_Main(ip) ==
  IF ip.v = 4
    THEN IF IsPrivate(ip) THEN Some(ip)
         ELSE IF IsLoopback(ip) THEN Some(ip)
         ELSE IF IsLinkLocal(ip) THEN Some(ip)
         ELSE IF IsMulticast(ip) THEN None
         ELSE Some(ip)
    ELSE None

\* iface.addr.iter().find_map(closure): the first result that is not None.
RECURSIVE GetAddressByInterface_Service(_)
GetAddressByInterface_Service(addr) ==
  IF addr = <<>> THEN None
  ELSE IF FindMapClosure_Service(Head(addr)) # None THEN FindMapClosure_Service(Head(addr))
  ELSE GetAddressByInterface_Service(Tail(addr))

RECURSIVE GetAddressByInterface_Main(_)
GetAddressByInterface_Main(addr) ==
  IF addr = <<>> THEN None
  ELSE IF FindMapClosure_Main(Head(addr)) # None THEN FindMapClosure_Main(Head(addr))
  ELSE GetAddressByInterface_Main(Tail(addr))

\* No interface is being looked at.
NoProbe == [addr |-> <<>>, done |-> {}, polled |-> None, listed |-> None]

\* The lists of addresses an interface can have.
AddrLists == UNION {[1..n -> IpAddrs] : n \in 0..MaxAddrs}

OnProbe(who) ==
  /\ side = "selector"
  /\ who \notin probe.done
  /\ UNCHANGED <<side, shared, conly, sonly, wire>>

\* update_available_interfaces calls get_address_by_interface(iface).
Poller_GetAddress ==
  /\ OnProbe("poller")
  /\ probe' = [probe EXCEPT !.done = @ \cup {"poller"},
                            !.polled = GetAddressByInterface_Service(probe.addr)]

\* list_interfaces calls get_address_by_interface(&iface).
List_GetAddress ==
  /\ OnProbe("list")
  /\ probe' = [probe EXCEPT !.done = @ \cup {"list"},
                            !.listed = GetAddressByInterface_Main(probe.addr)]

SelectorNext ==
  \/ Poller_GetAddress
  \/ List_GetAddress

\* ---------------------------------------------------------------- the runs
\* Service::new: an empty table, the cell at 0.0.0.0:0, nothing spawned yet.
\* (The excluded set and the shards are given with the side, below.)
ClientIdle ==
  /\ routines = {}
  /\ source_addr = Unspecified
  /\ shutdown = FALSE
  /\ ctl = "select"
  /\ poller = PollerIdle
  /\ tunnel = TunnelIdle
  /\ readers = [id \in RecordIds |-> NoReader]
  /\ fwdLog = [id \in RecordIds |-> <<>>]
  /\ moved = NoMove
  /\ lost = NoLoss

SharedInit == faults = 0 /\ nextId = 1 /\ ntun = 0 /\ nreply = 0

\* The host the program is started on.
HostInit == workers \in Cores

\* The interfaces of the host when the program starts: both with an
\* eligible address, or none with one.
HostUp == [eth0 |-> "10.0.0.5", wlan0 |-> "192.168.1.7"]
HostDown == [eth0 |-> NoAddress, wlan0 |-> Gone]

\* The client after Service::new: on a host with both interfaces up, with
\* none, one or both of them excluded, on a host with no eligible
\* interface, or on a host whose enumeration names an interface twice.
ClientInit ==
  /\ side = "client"
  /\ SharedInit
  /\ HostInit
  /\ \/ /\ excluded = {}
        /\ listing = IfaceOrder
        /\ ifaddr = HostUp
        /\ shardOf \in {[eth0 |-> 1, wlan0 |-> 1], [eth0 |-> 1, wlan0 |-> 2]}
     \/ /\ excluded \in {{"wlan0"}, Ifaces}
        /\ listing = IfaceOrder
        /\ ifaddr = HostUp
        /\ shardOf = [eth0 |-> 1, wlan0 |-> 1]
     \/ /\ excluded = {}
        /\ listing = IfaceOrder
        /\ ifaddr = HostDown
        /\ shardOf = [eth0 |-> 1, wlan0 |-> 1]
     \/ /\ excluded = {}
        /\ listing = IfaceTwice
        /\ ifaddr = HostUp
        /\ shardOf = [eth0 |-> 1, wlan0 |-> 1]
  /\ ClientIdle
  /\ ServerIdle
  /\ wire = NoWire
  /\ probe = NoProbe

\* The server after main has bound its sockets and spawned its tasks.
ServerInit ==
  /\ side = "server"
  /\ SharedInit
  /\ HostInit
  /\ excluded = {}
  /\ listing = IfaceOrder
  /\ ifaddr = HostUp
  /\ shardOf \in {[a \in ClientAddrs |-> 1],
                  [a \in ClientAddrs |-> IF a = "203.0.113.1:4000" THEN 1 ELSE 2]}
  /\ ClientIdle
  /\ ServerIdle
  /\ wire = NoWire
  /\ probe = NoProbe

\* A datagram of some length and content is sent to one of the programs.
PayloadInit ==
  /\ side = "payload"
  /\ SharedInit
  /\ workers = 1
  /\ excluded = {}
  /\ listing = IfaceOrder
  /\ ifaddr = HostUp
  /\ shardOf = [a \in ClientAddrs |-> 1]
  /\ ClientIdle
  /\ ServerIdle
  /\ probe = NoProbe
  /\ \E d \in {"up", "down"} : \E len \in Lengths : \E p \in Patterns :
       wire = [NoWire EXCEPT !.dir = d, !.orig = Datagram(len, p),
                             !.data = Datagram(len, p)]

\* An interface with some addresses, in some order, is given to the selectors.
SelectorInit ==
  /\ side = "selector"
  /\ SharedInit
  /\ workers = 1
  /\ excluded = {}
  /\ listing = IfaceOrder
  /\ ifaddr = HostUp
  /\ shardOf = [a \in ClientAddrs |-> 1]
  /\ ClientIdle
  /\ ServerIdle
  /\ wire = NoWire
  /\ \E a \in AddrLists : probe = [NoProbe EXCEPT !.addr = a]

Init == ClientInit \/ ServerInit
Next == ClientNext \/ ServerNext
Spec == Init /\ [][Next]_vars

\* The runs of one program alone.
ClientSpec == ClientInit /\ [][ClientNext]_vars
ServerSpec == ServerInit /\ [][ServerNext]_vars

\* The way of one datagram through both programs.
PayloadSpec == PayloadInit /\ [][PayloadNext]_vars

\* The two selectors applied to one interface.
SelectorSpec == SelectorInit /\ [][SelectorNext]_vars

\* -------------------------------------------------------------- properties
\* How often x occurs in a sequence.
Count(seq, x) == Cardinality({k \in DOMAIN seq : seq[k] = x})

\* ------------------------------------------------------------------- C1
\* C1: on both sides, a tunnel datagram is sent at most once on any path, and
\* when its fan-out iteration is over (the tunnel ingress is back at its
\* receive) every path that was in the table when the datagram arrived and
\* is still there has been sent the datagram exactly once, successfully: a
\* path whose send failed (server: or that had timed out) is gone.
C1_FanOutComplete ==
  /\ side = "client" =>
       /\ \A r \in routines : \A n \in 1..ntun : Count(r.sent, n) <= 1
       /\ tunnel.pc = "recv" /\ tunnel.buf > 0 =>
            \A r \in routines : r.id \in tunnel.start =>
               /\ Count(r.sent, tunnel.buf) = 1
               /\ r.id \notin tunnel.failed
  /\ side = "server" =>
       /\ \A c \in clients : \A n \in 1..ntun : Count(c.sent, n) <= 1
       /\ wingress.pc = "recv" /\ wingress.buf > 0 =>
            \A c \in clients : c.id \in wingress.start =>
               /\ Count(c.sent, wingress.buf) = 1
               /\ c.id \notin {f.id : f \in wingress.failed}

\* A fan-out on the client is over in which one path failed and was removed
\* and another, there from the start, has its copy.
C1_Witness ==
  /\ side = "client"
  /\ tunnel.pc = "recv"
  /\ tunnel.failed # {}
  /\ tunnel.failed \cap Ids(routines) = {}
  /\ \E r \in routines : r.id \in tunnel.start /\ r.sent = <<tunnel.buf>>

\* ------------------------------------------------------------------- C2
\* C2: a removal step of the tunnel ingress removes only records collected
\* in this iteration: on the client a record whose send failed, on the server
\* a record that failed or had timed out and has not been refreshed since.
C2_DropsOnlyCollected ==
  [][/\ (side = "client" /\ tunnel.pc = "drop" /\ tunnel' # tunnel) =>
          \A r \in routines \ routines' : r.id \in tunnel.failed
     /\ (side = "server" /\ wingress.pc = "drop" /\ wingress' # wingress) =>
          \A c \in clients \ clients' :
             [id |-> c.id, seq |-> c.seq] \in wingress.failed]_vars

\* ------------------------------------------------------------------- C3
\* C3: in every state the path table of the client holds at most one record
\* per interface name and that of the server at most one per source address.
C3_OneRecordPerIdentity ==
  /\ \A r1, r2 \in routines : r1.ifname = r2.ifname => r1 = r2
  /\ \A c1, c2 \in clients : c1.addr = c2.addr => c1 = c2

\* A client of the server has sent twice and its record has been updated.
C3_Witness ==
  \E c \in clients : c.total_received_bytes > 0

\* ------------------------------------------------------------------- C4
\* C4: on the client, when a tunnel datagram is received, no record whose
\* socket has returned an error from a send or a receive is in the table.
C4_ErroredPathGone ==
  [][(side = "client" /\ ntun' = ntun + 1) =>
        \A r \in routines : ~r.sock_err]_vars

Stale ==
  \E r \in routines : r.ifname = moved.ifname /\ r.src_ip # ifaddr[r.ifname]

\* C6, as the spec states it: after the eligible address of an interface with
\* a live path has changed, no two polls that enumerate the new address go
\* by with no record bound to it inserted, and none goes by and leaves a
\* record bound to another address in the table.
C6_ReplacedWithinTwoPolls ==
  moved.ifname # "" =>
    /\ moved.polls < 2
    /\ (moved.polls >= 1 \/ moved.made = "ok") => ~Stale

\* C6, amended: once a poll that enumerated the new address has come to its
\* end, no record bound to another address is in the table under that
\* interface; and every such poll has inserted a record bound to the new
\* address unless its create_send_thread failed.
C6_StaleGoneAndCreationTried ==
  moved.ifname # "" =>
    /\ moved.made # "none"
    /\ (moved.polls >= 1 \/ moved.made = "ok") => ~Stale

\* The address of an interface with a live path changed and a poll has put a
\* record bound to the new address in the place of the old one.
C6_Witness ==
  /\ moved.ifname # ""
  /\ moved.made = "ok"
  /\ \E r \in routines : r.ifname = moved.ifname /\ r.src_ip = ifaddr[r.ifname]
  /\ poller.pc = "sleep"

\* ------------------------------------------------------------------- C7
\* C7: on the client, in every state no record in the table and no reader,
\* running or ended, is of an excluded interface.
C7_ExcludedNeverPresent ==
  side = "client" =>
    /\ \A r \in routines : r.ifname \notin excluded
    /\ \A id \in RecordIds :
         readers[id].pc # "none" => readers[id].ifname \notin excluded

\* wlan0 is excluded and has an eligible address, a poll is over and has
\* made the record of eth0.
C7_Witness ==
  /\ side = "client"
  /\ excluded = {"wlan0"}
  /\ IsAddress(ifaddr["wlan0"])
  /\ poller.pc = "sleep"
  /\ routines # {}

\* ------------------------------------------------------------------- C8
\* C8: what a task sends on for a datagram it received (and so what leaves
\* the second program for a datagram sent to the first, in either direction)
\* is the datagram itself if that has at most 1500 bytes, else its first
\* 1500 bytes.
C8_PayloadPreserved ==
  (side = "payload" /\ wire.stage \in {2, 4}) =>
     IF Len(wire.orig) <= BUFFER_SIZE
       THEN wire.data = wire.orig
       ELSE /\ Len(wire.data) = BUFFER_SIZE
            /\ \A k \in 1..BUFFER_SIZE : wire.data[k] = wire.orig[k]

\* A datagram of 1499 bytes has come up through both programs, through
\* buffers that held other bytes before.
C8_Witness ==
  /\ side = "payload"
  /\ wire.dir = "up"
  /\ wire.stage = 4
  /\ Len(wire.orig) = BUFFER_SIZE - 1
  /\ wire.buf[BUFFER_SIZE] = 170
  /\ wire.data = wire.orig

\* ------------------------------------------------------------------- C9
\* C9 (client path reader to the tunnel socket): the replies received on one
\* path socket are sent on the tunnel socket in the order of their receipt.
C9_RepliesInOrder ==
  \A id \in RecordIds :
    \A j, k \in DOMAIN fwdLog[id] : j < k => fwdLog[id][j].n < fwdLog[id][k].n

\* ------------------------------------------------------------------ C10
\* C10: on the client the cell is 0.0.0.0:0 until the first tunnel datagram
\* and afterwards the source address of the last one; a reply forwarded
\* before the first tunnel datagram went to 0.0.0.0:0, one forwarded after
\* it went to a learned address, and one forwarded after the last tunnel
\* datagram went to the source address of that one.
C10_PeerCell ==
  side = "client" =>
    /\ ntun = 0 => source_addr = Unspecified
    /\ ntun > 0 => source_addr \in VpnAddrs
    /\ (ntun > 0 /\ tunnel.pc # "done") => source_addr = tunnel.src_addr
    /\ \A id \in RecordIds : \A k \in DOMAIN fwdLog[id] :
         LET e == fwdLog[id][k] IN
           /\ e.after = 0 => e.dst = Unspecified
           /\ e.after > 0 => e.dst \in VpnAddrs
           /\ e.after = ntun => e.dst = source_addr

\* A reply has been forwarded to the source of the second tunnel datagram,
\* which is not that of the first.
C10_Witness ==
  /\ side = "client"
  /\ ntun = 2
  /\ \E id \in RecordIds : \E k \in DOMAIN fwdLog[id] :
       /\ fwdLog[id][k].after = 2
       /\ fwdLog[id][k].dst = source_addr
  /\ \E r \in routines : Len(r.sent) = 1

\* ------------------------------------------------------------------ C11
\* A reader that has not ended: spawned and not yet polled, at the lookup,
\* suspended in recv_from, or holding a datagram.
ReaderRuns(id) == readers[id].pc \in {"top", "recv", "got"}

\* C11: on the client, in every state, the record a running reader was
\* spawned for (the record made by the create_send_thread that spawned it) is
\* in the table.
C11_NoReaderOutlivesRecord ==
  side = "client" =>
    \A id \in RecordIds : ReaderRuns(id) => id \in Ids(routines)

\* ------------------------------------------------------------------ C12
\* The fan-out of this side is suspended in a send with a guard of the table
\* in its hands, and every worker thread of the runtime is taken by a task
\* that waits for that guard: no thread is left to poll the fan-out again.
GuardDeadlock ==
  \/ side = "client" /\ AnyLocked /\ Parked >= workers
  \/ side = "server" /\ wingress.pc = "send" /\ SParked >= workers

\* C12: on both sides, no state is reached in which a task holding a guard
\* of the path table is suspended in a send while every task that has a
\* thread to run on is blocked waiting for that guard.
C12_NoGuardDeadlock == ~GuardDeadlock

\* ------------------------------------------------------------------ C13
\* C13: a task suspended in an await holds no guard of the path table.  The
\* only guards that outlast a statement are those of the fan-out iterators;
\* the tunnel ingress of either side is at an await when it is in recv or in
\* a send.  (The mutex of the cell is taken and released within one
\* statement, service.rs:230 and 261.)
C13_NoGuardAcrossAwait ==
  /\ (side = "client" /\ tunnel.pc \in {"recv", "send"}) =>
        \A k \in Ifaces : ~Locked(k)
  /\ (side = "server" /\ wingress.pc \in {"recv", "send"}) =>
        \A a \in ClientAddrs : ~SLocked(a)

\* ------------------------------------------------------------------ C14
\* Every task of the client has ended.
AllEnded ==
  /\ poller.pc = "done"
  /\ tunnel.pc = "done"
  /\ \A id \in RecordIds : ~ReaderRuns(id)

\* C14: on the client, Service::run has given the shutdown signal and
\* returned only when the poller, the tunnel ingress and every reader have
\* terminated.
C14_ReturnsAfterJoin ==
  (side = "client" /\ ctl = "cancelled") => AllEnded

\* ------------------------------------------------------------------ C15
\* C15: on the server, once the tunnel ingress has failed the process is
\* still running (the client ingress, unless it has ended by itself, and the
\* cleanup task go on), whatever has ended before.
C15_TunnelFailureAlone ==
  (side = "server" /\ wingress.pc = "done") => Running

\* ------------------------------------------------------------------ C16
\* C16: on the client, a create_send_thread that fails leaves no record and
\* no reader behind (an interface whose creation failed last has no record,
\* and readers exist only for the records that were made); the poller goes
\* on with the for loop of the same poll; and no poll that enumerates an
\* interface to make a path for ends without a record of it having been
\* found or made or its creation having been tried, in the poll of the
\* failure (the other interfaces) and in every later one (the interface
\* that failed).
C16_FailedCreationRetried ==
  side = "client" =>
    /\ \A id \in RecordIds : readers[id].pc # "none" <=> id < nextId
    /\ \A r \in routines : r.id < nextId
    /\ \A i \in Ifaces :
         /\ lost[i] \in {"err", "wait"} => Under(routines, i) = {}
         /\ lost[i] = "err" => poller.pc \in {"for", "create"}
         /\ lost[i] # "none"

\* The creation of eth0's path failed in the first poll, which made the path
\* of wlan0, and succeeded in a later one.
C16_Witness ==
  /\ side = "client"
  /\ lost = NoLoss
  /\ faults = 1
  /\ poller.pc = "sleep"
  /\ \E r \in routines : r.ifname = "wlan0" /\ r.id = 1
  /\ \E r \in routines : r.ifname = "eth0" /\ r.id = 2

\* ------------------------------------------------------------------ C17
\* C17: on the server, for the tunnel datagram in hand, received at time
\* received_at: a record has been sent it only if it was not silent for more
\* than client-timeout at received_at; a record is in the drop list for its
\* silence only if it was silent for more than that; and when the iteration
\* and its removals are over, every record that was in the table at the
\* arrival and is still there was within the timeout when it was reached and
\* has been sent the datagram, the others that were reached being removed.
C17_TimedOutDroppedOthersSent ==
  (side = "server" /\ wingress.buf > 0) =>
    /\ \A c \in clients :
         /\ Count(c.sent, wingress.buf) > 0 =>
              wingress.received_at - c.last_received_at <= ClientTimeout
         /\ (faults = 0 /\ [id |-> c.id, seq |-> c.seq] \in wingress.failed) =>
              wingress.received_at - c.last_received_at > ClientTimeout
    /\ wingress.pc = "recv" =>
         \A c \in clients : c.id \in wingress.start =>
            /\ c.id \notin {f.id : f \in wingress.failed}
            /\ Count(c.sent, wingress.buf) = 1

\* A client sent one datagram at t = 0 and nothing since; a tunnel datagram
\* that arrived later than client-timeout after it, before the first sweep,
\* has dropped its record without a send.
C17_Witness ==
  /\ side = "server"
  /\ faults = 0
  /\ nreply = 1
  /\ now < SweepPeriod
  /\ wingress.pc = "recv"
  /\ wingress.buf = 1
  /\ wingress.received_at > ClientTimeout
  /\ wingress.start # {}
  /\ wingress.failed # {}
  /\ clients = {}

\* ------------------------------------------------------------------ C18
\* The interfaces the poller would make a path for on the host as it is.
Eligible == {i \in Ifaces : IsAddress(ifaddr[i]) /\ i \notin excluded}

\* C18: on the client, as long as nothing has happened but polls and tunnel
\* datagrams (no change of the interfaces, no failed call, no interrupt) on
\* a host with no interface to make a path for, the table is empty, no record
\* has been made and no reader spawned, the tunnel ingress is at its receive
\* (no datagram has led to a send), the poller is at a poll or asleep, and
\* nothing has ended or signalled shutdown.
C18_NoEligibleInterfaceIdle ==
  (side = "client" /\ faults = 0 /\ Eligible = {}) =>
    /\ routines = {}
    /\ nextId = 1
    /\ \A id \in RecordIds : readers[id] = NoReader
    /\ tunnel.pc = "recv"
    /\ poller.pc \in {"show", "sleep"}
    /\ ctl = "select"
    /\ ~shutdown

\* On a host with no eligible interface the poller has polled and all the
\* tunnel datagrams of the run have been received.
C18_Witness ==
  /\ side = "client"
  /\ faults = 0
  /\ ifaddr = HostDown
  /\ poller.pc = "sleep"
  /\ ntun = MaxEvents
  /\ tunnel.pc = "recv"

\* ------------------------------------------------------------------ C19
\* C19: on the client, the record on whose socket the tunnel ingress has a
\* send pending does not have its closing flag set.
C19_NoSendOnClosing ==
  (side = "client" /\ tunnel.pc = "send") =>
    \A r \in Under(routines, tunnel.cur) : ~r.is_closing

\* ------------------------------------------------------------------ C20
\* The names in a drop list.
Listed(drop) == {drop[k] : k \in DOMAIN drop}

\* C20: on the client, a poll that looks at the table puts every record
\* whose closing flag is set in its drop list (and so removes it before it
\* comes to its end).
C20_ClosingDroppedByPoll ==
  [][(/\ side = "client"
      /\ poller.pc \in {"show", "sleep"}
      /\ poller'.pc \in {"remove", "create", "sleep"}
      /\ poller' # poller)
        => \A r \in routines :
              r.is_closing =>
                 poller'.pc = "remove" /\ r.ifname \in Listed(poller'.drop)]_vars

\* ------------------------------------------------------------------ C21
\* C21: on the client, in every state, no two running readers are of the same
\* interface name.
C21_OneReaderPerInterface ==
  side = "client" =>
    \A id1, id2 \in RecordIds :
      (ReaderRuns(id1) /\ ReaderRuns(id2)
         /\ readers[id1].ifname = readers[id2].ifname) => id1 = id2

\* ------------------------------------------------------------------ C22
\* C22: on the client, a reader that holds a reply and finds its record is,
\* once its send on the tunnel socket has returned (with or without an
\* error), back at the top of its loop, and the record is still in the
\* table.
C22_SendFailureTolerated ==
  [][\A id \in RecordIds :
       (/\ side = "client"
        /\ readers[id].pc = "got"
        /\ readers'[id] # readers[id]
        /\ Under(routines, readers[id].ifname) # {})
         => /\ readers'[id].pc = "top"
            /\ Under(routines', readers[id].ifname) # {}]_vars

\* ------------------------------------------------------------------ C23
\* The enumeration of the poll that is under way, or that starts with the
\* step.
PollIfs == IF poller.pc \in {"show", "sleep"} THEN ifaddr ELSE poller.ifs

\* Every record of the table is one the drop filter of the poll lets stay:
\* its interface is not excluded, is enumerated with an eligible address, and
\* that address is the one the record is bound to.
AllReconciled(table, ifs) == \A r \in table : ~ShouldDrop(r, ifs)

\* The removal step of a poll is over: the poller is in its for loop, or the
\* step that ends is the one that collected an empty drop list or removed
\* the last key of the list.
C23_AfterRemoval ==
  /\ [](side = "client" /\ poller.pc \in {"for", "create"}
          => AllReconciled(routines, poller.ifs))
  /\ [][(side = "client" /\ poller' # poller
           /\ poller'.pc \in {"for", "create", "sleep"})
          => AllReconciled(routines', PollIfs)]_vars

\* C23, as the spec states it: after the removal step of a poll every record
\* in the table passes the drop filter of the poll's enumeration, and for the
\* rest of the poll every interface for which create_send_thread has
\* succeeded in this poll has a record bound to its enumerated address.
C23_PollReconciles ==
  /\ C23_AfterRemoval
  /\ [](side = "client" /\ poller.pc \in {"for", "create"} =>
          \A i \in Ifaces : lost[i] = "made" =>
             \E r \in routines : r.ifname = i /\ r.src_ip = poller.ifs[i])

\* C23, amended: after the removal step of a poll, and up to the end of the
\* poll, every record in the table passes the drop filter of the poll's
\* enumeration; when create_send_thread succeeds for an interface, a record
\* of it bound to its enumerated address is in the table, and for the rest
\* of the poll the interface has that record or none.
C23_PollReconcilesUnlessDropped ==
  /\ C23_AfterRemoval
  /\ [][(side = "client" /\ poller.pc = "create" /\ nextId' = nextId + 1
           /\ poller'.pc # "done")
          => \E r \in routines' :
                /\ r.ifname = poller.cur
                /\ r.id = nextId
                /\ r.src_ip = poller.ifs[poller.cur]]_vars
  /\ [](side = "client" /\ poller.pc \in {"for", "create"} =>
          \A i \in Ifaces : lost[i] = "made" =>
             \A r \in Under(routines, i) : r.src_ip = poller.ifs[i])

\* A poll has removed the record of an interface whose address had changed
\* and made one bound to the new address, and is making the path of the
\* other interface.
C23_Witness ==
  /\ side = "client"
  /\ poller.pc = "create"
  /\ poller.cur = "wlan0"
  /\ lost["eth0"] = "made"
  /\ ifaddr["eth0"] = "10.0.0.6"
  /\ \E r \in routines : r.ifname = "eth0" /\ r.id = 2 /\ r.src_ip = "10.0.0.6"

\* ------------------------------------------------------------------ C24
\* C24: on the server, right after the upsert for a datagram of A
\* the table holds exactly one record of A, the one that was there before
\* (or a new one if there was none), with last-received-at the time of the
\* upsert, and client ingress is in the send of that datagram on the
\* upstream socket; no step of client ingress removes a record or sets a
\* last-received-at back.
C24_UpsertThenForward ==
  [][(side = "server" /\ cingress' # cingress) =>
       /\ \A c \in clients : \E d \in clients' :
            /\ d.addr = c.addr
            /\ d.id = c.id
            /\ d.last_received_at >= c.last_received_at
       /\ cingress.pc = "recv" /\ cingress'.pc # "done" =>
            /\ cingress'.pc = "fwd"
            /\ cingress'.buf = nreply'
            /\ Cardinality(ClientsUnder(clients', cingress'.src)) = 1
            /\ \A c \in ClientsUnder(clients', cingress'.src) :
                 /\ c.last_received_at = now
                 /\ c.seq = cingress'.buf
                 /\ IF ClientsUnder(clients, c.addr) = {}
                      THEN c.id = nextId /\ c.total_received_bytes = 0
                      ELSE \E old \in clients : old.addr = c.addr /\ old.id = c.id
       /\ cingress.pc = "fwd" => clients' = clients]_vars

\* A client has sent a second datagram later than its first: its record has
\* been refreshed, and the datagram has been sent on.
C24_Witness ==
  /\ side = "server"
  /\ cingress.pc = "recv"
  /\ faults = 0
  /\ nreply = 2
  /\ \E c \in clients :
       c.id = 1 /\ c.seq = 2 /\ c.last_received_at > 0 /\ c.total_received_bytes = 1

\* ------------------------------------------------------------------ C25
\* C25: on the client, whenever the poller is in create_send_thread for an
\* interface (between the contains_key that found no record and the insert,
\* across lookup_host and bind), the table holds no record under that name:
\* the insert never returns a previous record.
C25_NoDuplicateInsert ==
  (side = "client" /\ poller.pc = "create") => Under(routines, poller.cur) = {}

\* On a host whose enumeration names eth0 twice, a poll has made the path of
\* eth0 at the first listing, the tunnel ingress has dropped it, and the
\* poll is making it again at the second.
C25_Witness ==
  /\ side = "client"
  /\ listing = IfaceTwice
  /\ poller.pc = "create"
  /\ poller.cur = "eth0"
  /\ lost["eth0"] = "made"
  /\ nextId = 2

\* ------------------------------------------------------------------ C26
\* The runs of the server in which what has been started comes to its end:
\* a send that is under way returns, a task that is between two awaits goes
\* on, the timer of the cleanup task fires and the clock goes on.  Nothing
\* is asked of the receives: whether a datagram arrives is not up to the
\* server.
ServerFairSpec ==
  /\ ServerSpec
  /\ WF_vars(\E ok \in BOOLEAN : ReceiveFromClient_Forward(ok))
  /\ WF_vars(\E ok \in BOOLEAN : WgReceive_SendDone(ok))
  /\ WF_vars(WgReceive_Remove)
  /\ WF_vars(Cleanup_Collect)
  /\ WF_vars(Cleanup_Remove)
  /\ WF_vars(Tick)

\* C26: on the server, once one of the ingress tasks has terminated, all
\* activities of the server eventually terminate (the process is at its
\* end).
C26_ShutdownReachesAll ==
  (side = "server" /\ (cingress.pc = "done" \/ wingress.pc = "done")) ~> ~Running

\* ------------------------------------------------------------------ C27
\* C27: on the server, a record that the cleanup task removes, or that the
\* tunnel ingress removes from its drop list without having had a send on it
\* fail (it was listed for its silence), has at the removal not been
\* refreshed for more than client-timeout.
C27_RemovedOnlyIfStillSilent ==
  [][/\ (side = "server" /\ sweeper.pc = "remove" /\ sweeper' # sweeper) =>
          \A c \in clients \ clients' : now - c.last_received_at > ClientTimeout
     /\ (side = "server" /\ wingress.pc = "drop" /\ wingress' # wingress) =>
          \A c \in clients \ clients' :
             Count(c.sent, wingress.buf) = 0 =>
                now - c.last_received_at > ClientTimeout]_vars

\* ------------------------------------------------------------------ C28
\* C28: on the client, a step of a reader leaves the table with the same
\* records (none inserted, none removed), each with its name, socket, local
\* and remote address (and what was sent on it) as before, and leaves the
\* records under other names, the poller, the tunnel ingress, the cell and
\* the shutdown signal untouched; a reader that ends at the shutdown signal
\* changes neither the table nor anything else.
C28_ReaderFrame ==
  [][\A id \in RecordIds :
       (side = "client" /\ readers[id].pc # "none" /\ readers'[id] # readers[id])
        => /\ Ids(routines') = Ids(routines)
           /\ Cardinality(routines') = Cardinality(routines)
           /\ \A r \in routines :
                /\ \E q \in routines' :
                     /\ q.id = r.id
                     /\ q.ifname = r.ifname
                     /\ q.src_ip = r.src_ip
                     /\ q.dst_addr = r.dst_addr
                     /\ q.sent = r.sent
                /\ r.ifname # readers[id].ifname => r \in routines'
           /\ UNCHANGED <<poller, tunnel, source_addr, shutdown, ctl, nextId,
                          ifaddr, excluded>>
           /\ (readers[id].pc = "recv" /\ readers'[id].pc = "done"
                 /\ faults' = faults)
                => shutdown /\ UNCHANGED <<routines, fwdLog>>]_vars

\* A reader has counted a reply, marked its record closing after an error
\* and ended; the reader of another path has ended at the shutdown signal.
C28_Witness ==
  /\ side = "client"
  /\ shutdown
  /\ \E r \in routines :
       /\ r.is_closing
       /\ r.total_received_bytes = 1
       /\ r.last_received_at > 0
       /\ readers[r.id].pc = "done"
  /\ \E r \in routines : ~r.is_closing /\ readers[r.id].pc = "done"

\* ------------------------------------------------------------------ C29
\* Time enough is left on the clock for a record refreshed now to expire and
\* for the sweep after that.
TimeLeft == now + ClientTimeout + SweepPeriod <= MaxTime

\* C29: on the server, once client ingress has ended (a failed receive, or a
\* failed send after the upsert), the process goes on running; no record is
\* created or refreshed any more; and the table is eventually empty.
C29_IngressFailureDrainsTable ==
  /\ [](side = "server" /\ cingress.pc = "done" => Running)
  /\ [][(side = "server" /\ cingress.pc = "done") =>
          \A c \in clients' : \E d \in clients :
             d.id = c.id /\ d.last_received_at = c.last_received_at]_vars
  /\ (side = "server" /\ cingress.pc = "done" /\ TimeLeft) ~> (clients = {})

\* ------------------------------------------------------------------ C30
\* An address the selection rules accept: IPv4 and not multicast.
Accepted(ip) == ip.v = 4 /\ ip.o[1] \notin 224..239

\* The first accepted address of a list, or none.
FirstAccepted(addr) ==
  IF \E k \in 1..Len(addr) : Accepted(addr[k])
    THEN Some(addr[CHOOSE k \in 1..Len(addr) :
                     /\ Accepted(addr[k])
                     /\ \A j \in 1..(k - 1) : ~Accepted(addr[j])])
    ELSE None

\* C30: for every list of addresses, each selector returns the first
\* address in the order of the list that is IPv4 and not multicast, and no
\* address when the list has none; the selector of list-interfaces returns
\* what the selector of the poller returns.
C30_SelectorFirstEligible ==
  side = "selector" =>
    /\ "poller" \in probe.done => probe.polled = FirstAccepted(probe.addr)
    /\ "list" \in probe.done => probe.listed = FirstAccepted(probe.addr)
    /\ probe.done = {"poller", "list"} => probe.listed = probe.polled

\* Both selectors have passed over a multicast and an IPv6 address and
\* returned the other IPv4 address that follows them.
C30_Witness ==
  /\ side = "selector"
  /\ probe.addr = <<V4(224, 0, 0, 1), V6(<<65152, 0, 0, 0, 0, 0, 0, 1>>),
                    V4(8, 8, 8, 8)>>
  /\ probe.done = {"poller", "list"}
  /\ probe.polled = Some(V4(8, 8, 8, 8))
  /\ probe.listed = Some(V4(8, 8, 8, 8))

====
